---- MODULE Spec2Model ----
(***************************************************************************)
(* NEXUS-AAL workflow execution orchestrator.                              *)
(*                                                                         *)
(* The model follows the handler of POST /api/executions/execute and the   *)
(* background task it starts (server.ts), the step runner executeAgentStep *)
(* (src/services/geminiService.ts) and the three tables the handler uses   *)
(* (workflows, workflow_executions, execution_steps).                      *)
(*                                                                         *)
(* JavaScript runs one task at a time and a task keeps the thread until it *)
(* awaits or returns.  The variable `active` names the execution whose     *)
(* code holds the thread (0: the event loop is idle); every statement of   *)
(* the task is one action, and another task can only run while `active`    *)
(* is 0, that is while every started task is suspended at its await.       *)
(*                                                                         *)
(* Repository writes and broadcasts are calls into collaborators           *)
(* (better-sqlite3, ws) that can throw; each such call has a normal        *)
(* outcome and a faulting outcome.  A faulting write changes no row; a      *)
(* faulting broadcast has sent its message to some client or to none.      *)
(***************************************************************************)
EXTENDS Integers, Sequences, FiniteSets, TLC

\* ------------------------------------------------------------------ bounds
\* the longest plan of the single-run specification
MaxSteps == 3
\* collaborator calls (repository writes, broadcasts) that throw in one behaviour
MaxFaults == 2
\* the concurrent specification: executions started, workflows stored, longest plan
MaxExec == 2
MaxWorkflows == 1
MaxConcurrentSteps == 2
\* the longest plan of the specification that draws every outcome of the runner
MaxRunnerSteps == 1
\* the specification with subscribers: WebSocket connections made, longest plan
MaxClients == 2
MaxSubscriberSteps == 1
\* the longest plan of the specification with fair scheduling
MaxLiveSteps == 2
\* the Execution rows in the store when the analytics aggregate is requested
MaxAnalyticsRows == 4
MaxPlannerSteps == 1

ExecIds == 1..MaxExec
WorkflowIds == 1..MaxWorkflows
\* the connections in the order they are made, which is the order of the Map clients
ClientIds == 1..MaxClients
\* a workflow id the store never issues: a request can always name it
UnknownWorkflow == 0

\* ------------------------------------------------------------------ values
Undefined == "undefined"
NULL == "NULL"

Names == {"A", "B"}
Results == {"R1", "R2"}
ExecutorErrors == {"timeout"}

EmptyResponseMsg == "Empty response from agent"
UnknownErrorMsg == "Unknown error during agent execution"
SyntaxErrorMsg == "Unexpected token in JSON"
NetworkErrorMsg == "fetch failed"
TypeErrorMsg == "Cannot read properties of null (reading 'success')"
DbErrorMsg == "SQLITE_ERROR"
SendErrorMsg == "WebSocket send failed"

\* steps_json of a stored workflow: the ordered step names of the plan
PlansUpTo(n) == UNION {[1..k -> Names] : k \in 0..n}

\* plan.steps of an object the planner returned without the property, and of one
\* that holds null there; neither is a list of step names
NoSteps == <<Undefined>>
NullSteps == <<"null">>

\* a NULL in the column steps_json
NullColumn == <<NULL>>

\* what generateWorkflowPlan resolves with: JSON.parse of the model's text, which
\* nothing compares with the requested schema
PlannerValues(n) ==
    {[steps |-> p] : p \in PlansUpTo(n) \cup {NoSteps, NullSteps}}

\* JSON.stringify(plan.steps) as the INSERT binds it: undefined is bound as NULL,
\* null is serialised as the text null, a list as its text
StepsJson(planSteps) ==
    CASE planSteps = NoSteps -> NullColumn
      [] planSteps = NullSteps -> NullSteps
      [] OTHER -> planSteps

\* JSON.parse(workflow.steps_json): a NULL column is read as the text null
JSON_parse(steps_json) ==
    IF steps_json = NullColumn THEN NullSteps ELSE steps_json

\* What the model's generateContent call can do for one step.
\* success is "true", "false" or absent; result and error may be absent.
JsonValues ==
    {[isNull |-> FALSE, success |-> "true", result |-> r, error |-> Undefined] :
        r \in Results \cup {Undefined}}
    \cup {[isNull |-> FALSE, success |-> "false", result |-> Undefined, error |-> m] :
        m \in ExecutorErrors \cup {Undefined}}

\* JSON.parse("null"): a value with no properties at all
NullValue == [isNull |-> TRUE, success |-> Undefined, result |-> Undefined, error |-> Undefined]
NoValue == [isNull |-> FALSE, success |-> Undefined, result |-> Undefined, error |-> Undefined]

\* JSON.parse("{}"): an object that lacks the success flag
EmptyObject == NoValue

\* the message of the Error a rejected call carries; new Error() has the empty one
RejectMessages == {NetworkErrorMsg, ""}

\* the calls that end in a fault: the call rejects, the response has no text, the
\* text is not JSON
FaultOutcomes ==
    {[kind |-> "reject", value |-> NoValue, message |-> m] : m \in RejectMessages}
    \cup {[kind |-> "empty", value |-> NoValue, message |-> Undefined],
          [kind |-> "unparsable", value |-> NoValue, message |-> SyntaxErrorMsg]}

AgentOutcomes ==
    {[kind |-> "json", value |-> v, message |-> Undefined] : v \in JsonValues \cup {EmptyObject}}
    \cup {[kind |-> "jsonnull", value |-> NoValue, message |-> Undefined]}
    \cup FaultOutcomes

\* the outcomes drawn in the single-run specification: the faults of the call differ
\* only in the message the runner returns, so one of them stands for all
SingleRunOutcomes ==
    {o \in AgentOutcomes :
        \/ o.kind = "json" /\ o.value # EmptyObject
        \/ o.kind = "jsonnull"
        \/ o.kind = "reject" /\ o.message = NetworkErrorMsg}

\* the outcomes drawn when several executions interleave: two successes with
\* different results, a failure, and the value that makes the loop throw
ConcurrentOutcomes ==
    {o \in AgentOutcomes :
        \/ o.kind = "json" /\ o.value.success = "true" /\ o.value.result # Undefined
        \/ o.kind = "json" /\ o.value.success = "false" /\ o.value.error # Undefined
        \/ o.kind = "jsonnull"}

VARIABLES
    workflows,      \* table workflows: id -> steps_json (the plan), one entry per row
    executions,     \* table workflow_executions: id -> row, one entry per row
    execution_steps,\* table execution_steps, per execution_id, in insertion order
    pc,             \* position of each execution's background task
    steps,          \* the task's parsed plan
    i,              \* the task's loop index
    stepId,         \* the task's current step row
    context,        \* the task's context object
    result,         \* the value the task's await produced
    caught,         \* the message of the error the catch block holds
    responded,      \* whether res.json({executionId}) has been sent
    active,         \* the execution whose code holds the thread, or 0
    response,       \* the last HTTP response of the execute and create endpoints
    events,         \* per execution id, the messages broadcast, in emission order
    calls,          \* per execution id, the executeAgentStep invocations, in order
    writes,         \* per execution id, the number of row writes performed for it
    faults,         \* the number of collaborator calls that have thrown so far
    clients,        \* the connections the model follows: absent, open (in the Map,
                    \* readyState OPEN), closing (in the Map, not OPEN), closed (deleted)
    sentTo          \* per connection, the payloads passed to its send, in order

vars == <<workflows, executions, execution_steps, pc, steps, i, stepId, context,
          result, caught, responded, active, response, events, calls, writes, faults,
          clients, sentTo>>

taskVars == <<pc, steps, i, stepId, context, result, caught>>

\* ------------------------------------------------------------------ helpers
EmptyContext == [n \in Names |-> Undefined]

\* better-sqlite3 binds undefined as NULL
Bind(v) == IF v = Undefined THEN NULL ELSE v

\* JSON.stringify of a step result: undefined stays undefined, a value is serialised
JSON_stringify(v) ==
    CASE v = Undefined -> Undefined
      [] v = "R1" -> "{\"r\":1}"
      [] v = "R2" -> "{\"r\":2}"

Terminal(status) == status \in {"completed", "failed"}

\* a string read as a condition (error.message || ..., !text)
Falsy(v) == v \in {Undefined, ""}

\* executeAgentStep: the runner's mapping of the collaborator's outcome
Failure(message) ==
    [isNull |-> FALSE, success |-> "false", result |-> Undefined, error |-> message]

\* executeAgentStep without the fallback message of line 98
executeAgentStepNoFallback(o) ==
    CASE o.kind = "reject" -> Failure(o.message)
      [] o.kind = "empty" -> Failure(EmptyResponseMsg)
      [] o.kind = "unparsable" -> Failure(o.message)
      [] o.kind = "jsonnull" -> NullValue
      [] o.kind = "json" -> o.value

executeAgentStep(o) ==
    CASE o.kind = "reject" ->
            Failure(IF Falsy(o.message) THEN UnknownErrorMsg ELSE o.message)
      [] o.kind = "empty" -> Failure(EmptyResponseMsg)
      [] o.kind = "unparsable" -> Failure(o.message)
      [] o.kind = "jsonnull" -> NullValue
      [] o.kind = "json" -> o.value

\* result.success read as a condition
Truthy(v) == v = "true"

Init ==
    /\ workflows = <<>>
    /\ executions = <<>>
    /\ execution_steps = [e \in ExecIds |-> <<>>]
    /\ pc = [e \in ExecIds |-> "idle"]
    /\ steps = [e \in ExecIds |-> <<>>]
    /\ i = [e \in ExecIds |-> 0]
    /\ stepId = [e \in ExecIds |-> 0]
    /\ context = [e \in ExecIds |-> EmptyContext]
    /\ result = [e \in ExecIds |-> NoValue]
    /\ caught = [e \in ExecIds |-> Undefined]
    /\ responded = [e \in ExecIds |-> FALSE]
    /\ active = 0
    /\ response = [status |-> 0, executionId |-> 0]
    /\ events = [e \in ExecIds |-> <<>>]
    /\ calls = [e \in ExecIds |-> <<>>]
    /\ writes = [e \in ExecIds |-> 0]
    /\ faults = 0
    /\ clients = [c \in ClientIds |-> "absent"]
    /\ sentTo = [c \in ClientIds |-> <<>>]

\* ------------------------------------------------------------------ rows, events
ExecutionRow(w) == [workflow_id |-> w, status |-> "running", error_message |-> NULL]

\* StepRow that numbers the steps from one
StepRowOneBased(idx, name) ==
    [step_index |-> idx + 1, name |-> name, status |-> "running",
     result_json |-> NULL, error_message |-> NULL]

StepRow(idx, name) ==
    [step_index |-> idx, name |-> name, status |-> "running",
     result_json |-> NULL, error_message |-> NULL]

ExecutionUpdate(status, error) ==
    [type |-> "execution_update", status |-> status, stepId |-> 0, stepIndex |-> -1,
     result |-> Undefined, error |-> error]

StepUpdate(id, idx, status, res, error) ==
    [type |-> "step_update", status |-> status, stepId |-> id, stepIndex |-> idx,
     result |-> res, error |-> error]

\* steps[i] of the task (the code's index is 0-based)
CurrentStep(e) == steps[e][i[e] + 1]

\* control leaves the task's code: back to the handler while it has not answered
Release(e) == IF responded[e] THEN 0 ELSE e

\* uuidv4(): an id no row has
FreshExecutionId == Len(executions) + 1

\* the payload of a message: the event with the executionId it is broadcast with
Payload(e, message) == [executionId |-> e, message |-> message]

\* OpenClients without the readyState test: every connection in the Map
OpenClientsUnchecked == {c \in ClientIds : clients[c] \in {"open", "closing"}}

\* the connections broadcast sends to: in the Map and readyState OPEN
OpenClients == {c \in ClientIds : clients[c] = "open"}

\* client.send(payload) for every connection of the set
SendTo(receivers, e, message) ==
    sentTo' = [c \in ClientIds |->
                  IF c \in receivers THEN Append(sentTo[c], Payload(e, message))
                  ELSE sentTo[c]]

broadcast(e, message) ==
    /\ events' = [events EXCEPT ![e] = Append(@, message)]
    /\ SendTo(OpenClients, e, message)

\* broadcast throws: in JSON.stringify or the first send (nothing went out), or in
\* a later send (the message already went out to a subscriber).  When the send to
\* a followed connection t throws, the open connections before t in the Map have
\* been sent the message; t = 0 is a throw that is not at a followed connection.
broadcastThrows(e, message) ==
    \E sent \in BOOLEAN, t \in {0} \cup OpenClients :
        LET receivers == {c \in OpenClients : c < t} IN
        /\ receivers # {} => sent
        /\ events' = [events EXCEPT ![e] = IF sent THEN Append(@, message) ELSE @]
        /\ SendTo(receivers, e, message)

\* an error leaves the async function: its promise rejects and nothing handles it.
\* The task runs no further statement (a runtime that ends the process on an
\* unhandled rejection stops every other task as well, which adds no behaviour).
Reject(e) ==
    /\ pc' = [pc EXCEPT ![e] = "abandoned"]
    /\ active' = Release(e)

\* an error thrown inside the try block is caught at line 121
Throw(e, message) ==
    /\ pc' = [pc EXCEPT ![e] = "L122"]
    /\ caught' = [caught EXCEPT ![e] = message]

Goto(e, label) == pc' = [pc EXCEPT ![e] = label]

At(e, label) == active = e /\ pc[e] = label

\* ------------------------------------------------------------------ POST /api/workflows/create
\* the planner returned a plan: the workflow row is stored
StoreWorkflow(plan) ==
    /\ active = 0
    /\ workflows' = Append(workflows, plan)
    /\ response' = [status |-> 200, executionId |-> 0]
    /\ UNCHANGED <<executions, execution_steps, taskVars, responded, active, events, calls,
                   writes, faults, clients, sentTo>>

\* lines 45-52: the planner resolved with a value; its steps property is serialised
\* and the row stored, whatever the property holds
CreateFromPlanner(plan) ==
    /\ active = 0
    /\ workflows = <<>>
    /\ workflows' = Append(workflows, StepsJson(plan.steps))
    /\ response' = [status |-> 200, executionId |-> 0]
    /\ UNCHANGED <<executions, execution_steps, taskVars, responded, active, events, calls,
                   writes, faults, clients, sentTo>>

\* the requests of the two specifications: one workflow, or up to MaxWorkflows
CreateOnlyWorkflow(plan) == workflows = <<>> /\ StoreWorkflow(plan)

CreateWorkflow(plan) == Len(workflows) < MaxWorkflows /\ StoreWorkflow(plan)

\* CreateWorkflowFails that records the failure as a failed Execution
CreateWorkflowFailsRecorded ==
    /\ active = 0
    /\ Len(executions) < MaxExec
    /\ response' = [status |-> 500, executionId |-> 0]
    /\ executions' = Append(executions, [workflow_id |-> UnknownWorkflow,
                                         status |-> "failed", error_message |-> NULL])
    /\ UNCHANGED <<workflows, execution_steps, taskVars, responded, active, events, calls,
                   writes, faults, clients, sentTo>>

\* lines 45-56: generateWorkflowPlan or the INSERT threw: 500, nothing stored
CreateWorkflowFails ==
    /\ active = 0
    /\ response' = [status |-> 500, executionId |-> 0]
    /\ UNCHANGED <<workflows, executions, execution_steps, taskVars, responded, active, events,
                   calls, writes, faults, clients, sentTo>>

\* ------------------------------------------------------------------ POST /api/executions/execute
\* ExecuteNotFound without the return: the 404 is sent and the row inserted all the same
ExecuteNotFoundInserts(w) ==
    /\ active = 0
    /\ w \notin DOMAIN workflows
    /\ Len(executions) < MaxExec
    /\ response' = [status |-> 404, executionId |-> 0]
    /\ executions' = Append(executions, [workflow_id |-> w, status |-> "running",
                                         error_message |-> NULL])
    /\ UNCHANGED <<workflows, execution_steps, taskVars, responded, active, events, calls,
                   writes, faults, clients, sentTo>>

\* line 78: the workflow lookup finds no row
ExecuteNotFound(w) ==
    /\ active = 0
    /\ w \notin DOMAIN workflows
    /\ response' = [status |-> 404, executionId |-> 0]
    /\ UNCHANGED <<workflows, executions, execution_steps, taskVars, responded, active, events,
                   calls, writes, faults, clients, sentTo>>

\* lines 77-87: the row is inserted, the plan parsed, the task entered
StartExecution(w) ==
    /\ active = 0
    /\ w \in DOMAIN workflows
    /\ LET e == FreshExecutionId IN
        /\ executions' = Append(executions, ExecutionRow(w))
        /\ writes' = [writes EXCEPT ![e] = @ + 1]
        /\ steps' = [steps EXCEPT ![e] = JSON_parse(workflows[w])]
        /\ context' = [context EXCEPT ![e] = EmptyContext]
        /\ Goto(e, "L88")
        /\ active' = e
    /\ UNCHANGED <<workflows, execution_steps, i, stepId, result, caught, responded, response,
                   events, calls, faults, clients, sentTo>>

\* line 81: the INSERT throws; the handler's promise rejects, no row, no task, no answer
StartExecutionFaults(w) ==
    /\ active = 0
    /\ w \in DOMAIN workflows
    /\ faults < MaxFaults
    /\ faults' = faults + 1
    /\ UNCHANGED <<workflows, executions, execution_steps, taskVars, responded, active,
                   response, events, calls, writes, clients, sentTo>>

\* the requests of the two specifications: one run, or up to MaxExec runs
ExecuteOnce(w) == executions = <<>> /\ StartExecution(w)

Execute(w) == Len(executions) < MaxExec /\ StartExecution(w)

\* line 135: res.json({ executionId }), once the task has suspended or ended
Respond(e) ==
    /\ active = e
    /\ ~responded[e]
    /\ pc[e] \in {"await", "done", "abandoned"}
    /\ responded' = [responded EXCEPT ![e] = TRUE]
    /\ response' = [status |-> 200, executionId |-> e]
    /\ active' = 0
    /\ UNCHANGED <<workflows, executions, execution_steps, taskVars, events, calls, writes,
                   faults, clients, sentTo>>

\* ------------------------------------------------------------------ the background task
\* line 88
BroadcastRunning(e) ==
    /\ At(e, "L88")
    /\ broadcast(e, ExecutionUpdate("running", Undefined))
    /\ Goto(e, "L90")
    /\ i' = [i EXCEPT ![e] = 0]
    /\ UNCHANGED <<workflows, executions, execution_steps, steps, stepId, context, result,
                   caught, responded, active, response, calls, writes, faults, clients>>

BroadcastRunningFaults(e) ==
    /\ At(e, "L88")
    /\ faults < MaxFaults
    /\ faults' = faults + 1
    /\ broadcastThrows(e, ExecutionUpdate("running", Undefined))
    /\ Reject(e)
    /\ UNCHANGED <<workflows, executions, execution_steps, steps, i, stepId, context, result,
                   caught, responded, response, calls, writes, clients>>

\* LoopTest with the bound off by one: i < steps.length - 1
LoopTestOffByOne(e) ==
    /\ At(e, "L90")
    /\ Goto(e, IF i[e] < Len(steps[e]) - 1 THEN "L94" ELSE "L131")
    /\ UNCHANGED <<workflows, executions, execution_steps, steps, i, stepId, context, result,
                   caught, responded, active, response, events, calls, writes, faults, clients,
                   sentTo>>

\* LoopTest that treats a plan without steps as a failure
LoopTestRejectsEmpty(e) ==
    /\ At(e, "L90")
    /\ Goto(e, IF Len(steps[e]) = 0 THEN "L124"
               ELSE IF i[e] < Len(steps[e]) THEN "L94" ELSE "L131")
    /\ UNCHANGED <<workflows, executions, execution_steps, steps, i, stepId, context,
                   result, caught, responded, active, response, events, calls, writes,
                   faults, clients, sentTo>>

\* line 90 with steps null: reading steps.length throws a TypeError outside the try
\* block, the task's promise rejects
LoopTestThrows(e) ==
    /\ At(e, "L90")
    /\ steps[e] = NullSteps
    /\ Reject(e)
    /\ UNCHANGED <<workflows, executions, execution_steps, steps, i, stepId, context, result,
                   caught, responded, response, events, calls, writes, faults, clients,
                   sentTo>>

\* line 90: i < steps.length
LoopTest(e) ==
    /\ At(e, "L90")
    /\ steps[e] # NullSteps
    /\ Goto(e, IF i[e] < Len(steps[e]) THEN "L94" ELSE "L131")
    /\ UNCHANGED <<workflows, executions, execution_steps, steps, i, stepId, context, result,
                   caught, responded, active, response, events, calls, writes, faults, clients,
                   sentTo>>

\* lines 91-97: the step row is inserted as running
InsertStep(e) ==
    /\ At(e, "L94")
    /\ execution_steps' = [execution_steps EXCEPT
                              ![e] = Append(@, StepRow(i[e], CurrentStep(e)))]
    /\ stepId' = [stepId EXCEPT ![e] = Len(execution_steps[e]) + 1]
    /\ writes' = [writes EXCEPT ![e] = @ + 1]
    /\ Goto(e, "L99")
    /\ UNCHANGED <<workflows, executions, steps, i, context, result, caught, responded, active,
                   response, events, calls, faults, clients, sentTo>>

InsertStepFaults(e) ==
    /\ At(e, "L94")
    /\ faults < MaxFaults
    /\ faults' = faults + 1
    /\ Reject(e)
    /\ UNCHANGED <<workflows, executions, execution_steps, steps, i, stepId, context, result,
                   caught, responded, response, events, calls, writes, clients, sentTo>>

\* line 99
BroadcastStepRunning(e) ==
    /\ At(e, "L99")
    /\ broadcast(e, StepUpdate(stepId[e], i[e], "running", Undefined, Undefined))
    /\ Goto(e, "L102")
    /\ UNCHANGED <<workflows, executions, execution_steps, steps, i, stepId, context, result,
                   caught, responded, active, response, calls, writes, faults, clients>>

BroadcastStepRunningFaults(e) ==
    /\ At(e, "L99")
    /\ faults < MaxFaults
    /\ faults' = faults + 1
    /\ broadcastThrows(e, StepUpdate(stepId[e], i[e], "running", Undefined, Undefined))
    /\ Reject(e)
    /\ UNCHANGED <<workflows, executions, execution_steps, steps, i, stepId, context, result,
                   caught, responded, response, calls, writes, clients>>

\* line 102: executeAgentStep(step, context) is called and awaited
CallAgent(e) ==
    /\ At(e, "L102")
    /\ calls' = [calls EXCEPT ![e] = Append(@, [stepIndex |-> i[e],
                                                  name |-> CurrentStep(e),
                                                  context |-> context[e]])]
    /\ Goto(e, "await")
    /\ active' = Release(e)
    /\ UNCHANGED <<workflows, executions, execution_steps, steps, i, stepId, context, result,
                   caught, responded, response, events, writes, faults, clients, sentTo>>

\* line 102: the awaited promise settles with the runner's value
AgentReturns(e, o) ==
    /\ active = 0
    /\ pc[e] = "await"
    /\ result' = [result EXCEPT ![e] = executeAgentStep(o)]
    /\ Goto(e, "L104")
    /\ active' = e
    /\ UNCHANGED <<workflows, executions, execution_steps, steps, i, stepId, context, caught,
                   responded, response, events, calls, writes, faults, clients, sentTo>>

\* ReadSuccessThrows with the read outside the try block: the error leaves the task
ReadSuccessUncaught(e) ==
    /\ At(e, "L104")
    /\ result[e].isNull
    /\ Reject(e)
    /\ UNCHANGED <<workflows, executions, execution_steps, steps, i, stepId, context, result,
                   caught, responded, response, events, calls, writes, faults, clients, sentTo>>

\* line 104: result.success on null throws a TypeError
ReadSuccessThrows(e) ==
    /\ At(e, "L104")
    /\ result[e].isNull
    /\ Throw(e, TypeErrorMsg)
    /\ UNCHANGED <<workflows, executions, execution_steps, steps, i, stepId, context, result,
                   responded, active, response, events, calls, writes, faults, clients, sentTo>>

\* StatusOf that keeps a successful step running
StatusOfStale(r) == IF Truthy(r.success) THEN "running" ELSE "failed"

\* line 104
StatusOf(r) == IF Truthy(r.success) THEN "completed" ELSE "failed"

\* UpdateStep without the UPDATE statement
UpdateStepSkipped(e) ==
    /\ At(e, "L104")
    /\ ~result[e].isNull
    /\ Goto(e, "L111")
    /\ UNCHANGED <<workflows, executions, execution_steps, steps, i, stepId, context, result,
                   caught, responded, active, response, events, calls, writes, faults, clients,
                   sentTo>>

\* lines 104-109: the step row gets its terminal status
UpdateStep(e) ==
    /\ At(e, "L104")
    /\ ~result[e].isNull
    /\ execution_steps' = [execution_steps EXCEPT ![e][stepId[e]] =
            [@ EXCEPT !.status = StatusOf(result[e]),
                      !.result_json = Bind(JSON_stringify(result[e].result)),
                      !.error_message = Bind(result[e].error)]]
    /\ writes' = [writes EXCEPT ![e] = @ + 1]
    /\ Goto(e, "L111")
    /\ UNCHANGED <<workflows, executions, steps, i, stepId, context, result, caught, responded,
                   active, response, events, calls, faults, clients, sentTo>>

\* UpdateStepFaults with the error of the UPDATE swallowed: the loop goes on
UpdateStepFaultsIgnored(e) ==
    /\ At(e, "L104")
    /\ faults < MaxFaults
    /\ faults' = faults + 1
    /\ ~result[e].isNull
    /\ Goto(e, "L111")
    /\ UNCHANGED <<workflows, executions, execution_steps, steps, i, stepId, context,
                   result, caught, responded, active, response, events, calls, writes,
                   clients, sentTo>>

UpdateStepFaults(e) ==
    /\ At(e, "L104")
    /\ faults < MaxFaults
    /\ faults' = faults + 1
    /\ ~result[e].isNull
    /\ Throw(e, DbErrorMsg)
    /\ UNCHANGED <<workflows, executions, execution_steps, steps, i, stepId, context, result,
                   responded, active, response, events, calls, writes, clients, sentTo>>

\* BroadcastStepResult whose event carries the status only
BroadcastStepResultBare(e) ==
    /\ At(e, "L111")
    /\ broadcast(e, StepUpdate(stepId[e], i[e], StatusOf(result[e]), Undefined, Undefined))
    /\ Goto(e, "L113")
    /\ UNCHANGED <<workflows, executions, execution_steps, steps, i, stepId, context,
                   result, caught, responded, active, response, calls, writes, faults,
                   clients>>

\* line 111
BroadcastStepResult(e) ==
    /\ At(e, "L111")
    /\ broadcast(e, StepUpdate(stepId[e], i[e], StatusOf(result[e]), result[e].result,
                               result[e].error))
    /\ Goto(e, "L113")
    /\ UNCHANGED <<workflows, executions, execution_steps, steps, i, stepId, context, result,
                   caught, responded, active, response, calls, writes, faults, clients>>

BroadcastStepResultFaults(e) ==
    /\ At(e, "L111")
    /\ faults < MaxFaults
    /\ faults' = faults + 1
    /\ broadcastThrows(e, StepUpdate(stepId[e], i[e], StatusOf(result[e]), result[e].result,
                                     result[e].error))
    /\ Throw(e, SendErrorMsg)
    /\ UNCHANGED <<workflows, executions, execution_steps, steps, i, stepId, context, result,
                   responded, active, response, calls, writes, clients>>

\* TestSuccess without the early return: the loop goes on after a failure
TestSuccessContinues(e) ==
    /\ At(e, "L113")
    /\ Goto(e, "L120")
    /\ UNCHANGED <<workflows, executions, execution_steps, steps, i, stepId, context, result,
                   caught, responded, active, response, events, calls, writes, faults, clients,
                   sentTo>>

\* TestSuccess that invokes the executor again for a step that failed
TestSuccessRetries(e) ==
    /\ At(e, "L113")
    /\ Goto(e, IF ~Truthy(result[e].success) THEN "L102" ELSE "L120")
    /\ UNCHANGED <<workflows, executions, execution_steps, steps, i, stepId, context, result,
                   caught, responded, active, response, events, calls, writes, faults, clients,
                   sentTo>>

\* line 113: if (!result.success)
TestSuccess(e) ==
    /\ At(e, "L113")
    /\ Goto(e, IF ~Truthy(result[e].success) THEN "L114" ELSE "L120")
    /\ UNCHANGED <<workflows, executions, execution_steps, steps, i, stepId, context, result,
                   caught, responded, active, response, events, calls, writes, faults, clients,
                   sentTo>>

\* FailExecution whose UPDATE has no WHERE clause: every Execution row is failed
FailExecutionAll(e) ==
    /\ At(e, "L114")
    /\ executions' = [x \in DOMAIN executions |->
            [executions[x] EXCEPT !.status = "failed",
                                  !.error_message = Bind(result[e].error)]]
    /\ writes' = [writes EXCEPT ![e] = @ + 1]
    /\ Goto(e, "L116")
    /\ UNCHANGED <<workflows, execution_steps, steps, i, stepId, context, result, caught,
                   responded, active, response, events, calls, faults, clients, sentTo>>

\* FailExecution without the UPDATE statement: the broadcast precedes the write
FailExecutionSkipped(e) ==
    /\ At(e, "L114")
    /\ Goto(e, "L116")
    /\ UNCHANGED <<workflows, executions, execution_steps, steps, i, stepId, context, result,
                   caught, responded, active, response, events, calls, writes, faults, clients,
                   sentTo>>

\* lines 114-115
FailExecution(e) ==
    /\ At(e, "L114")
    /\ executions' = [executions EXCEPT ![e] =
            [@ EXCEPT !.status = "failed", !.error_message = Bind(result[e].error)]]
    /\ writes' = [writes EXCEPT ![e] = @ + 1]
    /\ Goto(e, "L116")
    /\ UNCHANGED <<workflows, execution_steps, steps, i, stepId, context, result, caught,
                   responded, active, response, events, calls, faults, clients, sentTo>>

FailExecutionFaults(e) ==
    /\ At(e, "L114")
    /\ faults < MaxFaults
    /\ faults' = faults + 1
    /\ Throw(e, DbErrorMsg)
    /\ UNCHANGED <<workflows, executions, execution_steps, steps, i, stepId, context, result,
                   responded, active, response, events, calls, writes, clients, sentTo>>

\* lines 116-117
BroadcastFailed(e) ==
    /\ At(e, "L116")
    /\ broadcast(e, ExecutionUpdate("failed", result[e].error))
    /\ Goto(e, "done")
    /\ active' = Release(e)
    /\ UNCHANGED <<workflows, executions, execution_steps, steps, i, stepId, context, result,
                   caught, responded, response, calls, writes, faults, clients>>

BroadcastFailedFaults(e) ==
    /\ At(e, "L116")
    /\ faults < MaxFaults
    /\ faults' = faults + 1
    /\ broadcastThrows(e, ExecutionUpdate("failed", result[e].error))
    /\ Throw(e, SendErrorMsg)
    /\ UNCHANGED <<workflows, executions, execution_steps, steps, i, stepId, context, result,
                   responded, active, response, calls, writes, clients>>

\* Assign that keeps the entry a name already has
AssignKeepsFirst(ctx, name, value) ==
    IF ctx[name] = Undefined THEN [ctx EXCEPT ![name] = value] ELSE ctx

\* Object.assign(context, { [step.name]: result.result })
Assign(ctx, name, value) == [ctx EXCEPT ![name] = value]

\* MergeContext on a context object shared by every execution
MergeContextShared(e) ==
    /\ At(e, "L120")
    /\ context' = [x \in ExecIds |-> Assign(context[x], CurrentStep(e), result[e].result)]
    /\ i' = [i EXCEPT ![e] = @ + 1]
    /\ Goto(e, "L90")
    /\ UNCHANGED <<workflows, executions, execution_steps, steps, stepId, result, caught,
                   responded, active, response, events, calls, writes, faults, clients,
                   sentTo>>

\* line 120, then i++ of line 90
MergeContext(e) ==
    /\ At(e, "L120")
    /\ context' = [context EXCEPT ![e] = Assign(@, CurrentStep(e), result[e].result)]
    /\ i' = [i EXCEPT ![e] = @ + 1]
    /\ Goto(e, "L90")
    /\ UNCHANGED <<workflows, executions, execution_steps, steps, stepId, result, caught,
                   responded, active, response, events, calls, writes, faults, clients, sentTo>>

\* CatchFailStep without the UPDATE statement
CatchFailStepSkipped(e) ==
    /\ At(e, "L122")
    /\ Goto(e, "L124")
    /\ UNCHANGED <<workflows, executions, execution_steps, steps, i, stepId, context,
                   result, caught, responded, active, response, events, calls, writes,
                   faults, clients, sentTo>>

\* lines 122-123 (catch)
CatchFailStep(e) ==
    /\ At(e, "L122")
    /\ execution_steps' = [execution_steps EXCEPT ![e][stepId[e]] =
            [@ EXCEPT !.status = "failed", !.error_message = Bind(caught[e])]]
    /\ writes' = [writes EXCEPT ![e] = @ + 1]
    /\ Goto(e, "L124")
    /\ UNCHANGED <<workflows, executions, steps, i, stepId, context, result, caught, responded,
                   active, response, events, calls, faults, clients, sentTo>>

CatchFailStepFaults(e) ==
    /\ At(e, "L122")
    /\ faults < MaxFaults
    /\ faults' = faults + 1
    /\ Reject(e)
    /\ UNCHANGED <<workflows, executions, execution_steps, steps, i, stepId, context, result,
                   caught, responded, response, events, calls, writes, clients, sentTo>>

\* lines 124-125 (catch)
CatchFailExecution(e) ==
    /\ At(e, "L124")
    /\ executions' = [executions EXCEPT ![e] =
            [@ EXCEPT !.status = "failed", !.error_message = Bind(caught[e])]]
    /\ writes' = [writes EXCEPT ![e] = @ + 1]
    /\ Goto(e, "L126")
    /\ UNCHANGED <<workflows, execution_steps, steps, i, stepId, context, result, caught,
                   responded, active, response, events, calls, faults, clients, sentTo>>

CatchFailExecutionFaults(e) ==
    /\ At(e, "L124")
    /\ faults < MaxFaults
    /\ faults' = faults + 1
    /\ Reject(e)
    /\ UNCHANGED <<workflows, executions, execution_steps, steps, i, stepId, context, result,
                   caught, responded, response, events, calls, writes, clients, sentTo>>

\* lines 126-127 (catch)
CatchBroadcast(e) ==
    /\ At(e, "L126")
    /\ broadcast(e, ExecutionUpdate("failed", caught[e]))
    /\ Goto(e, "done")
    /\ active' = Release(e)
    /\ UNCHANGED <<workflows, executions, execution_steps, steps, i, stepId, context, result,
                   caught, responded, response, calls, writes, faults, clients>>

CatchBroadcastFaults(e) ==
    /\ At(e, "L126")
    /\ faults < MaxFaults
    /\ faults' = faults + 1
    /\ broadcastThrows(e, ExecutionUpdate("failed", caught[e]))
    /\ Reject(e)
    /\ UNCHANGED <<workflows, executions, execution_steps, steps, i, stepId, context, result,
                   caught, responded, response, calls, writes, clients>>

\* CompleteExecution without the UPDATE statement
CompleteExecutionSkipped(e) ==
    /\ At(e, "L131")
    /\ Goto(e, "L132")
    /\ UNCHANGED <<workflows, executions, execution_steps, steps, i, stepId, context,
                   result, caught, responded, active, response, events, calls, writes,
                   faults, clients, sentTo>>

\* line 131
CompleteExecution(e) ==
    /\ At(e, "L131")
    /\ executions' = [executions EXCEPT ![e] = [@ EXCEPT !.status = "completed"]]
    /\ writes' = [writes EXCEPT ![e] = @ + 1]
    /\ Goto(e, "L132")
    /\ UNCHANGED <<workflows, execution_steps, steps, i, stepId, context, result, caught,
                   responded, active, response, events, calls, faults, clients, sentTo>>

CompleteExecutionFaults(e) ==
    /\ At(e, "L131")
    /\ faults < MaxFaults
    /\ faults' = faults + 1
    /\ Reject(e)
    /\ UNCHANGED <<workflows, executions, execution_steps, steps, i, stepId, context, result,
                   caught, responded, response, events, calls, writes, clients, sentTo>>

\* line 132, the task's last statement
BroadcastCompleted(e) ==
    /\ At(e, "L132")
    /\ broadcast(e, ExecutionUpdate("completed", Undefined))
    /\ Goto(e, "done")
    /\ active' = Release(e)
    /\ UNCHANGED <<workflows, executions, execution_steps, steps, i, stepId, context, result,
                   caught, responded, response, calls, writes, faults, clients>>

BroadcastCompletedFaults(e) ==
    /\ At(e, "L132")
    /\ faults < MaxFaults
    /\ faults' = faults + 1
    /\ broadcastThrows(e, ExecutionUpdate("completed", Undefined))
    /\ Reject(e)
    /\ UNCHANGED <<workflows, executions, execution_steps, steps, i, stepId, context, result,
                   caught, responded, response, calls, writes, clients>>

\* ------------------------------------------------------------------ GET /api/analytics/overview
Statuses == {"running", "completed", "failed"}

\* SELECT COUNT(*) ... WHERE status = s
CountStatus(s) == Cardinality({e \in DOMAIN executions : executions[e].status = s})

\* the NULL SQLite yields for a division by zero, among quotients
NullRate == [num |-> 0, den |-> 0]

\* COUNT(CASE WHEN status = 'completed' THEN 1 END) * 100.0 / COUNT(*): the quotient
\* as numerator and denominator
RateQuery ==
    IF Len(executions) = 0 THEN NullRate
    ELSE [num |-> CountStatus("completed") * 100, den |-> Len(executions)]

\* rate || 0: NULL and 0 are falsy
OrZero(rate) == IF rate = NullRate \/ rate.num = 0 THEN [num |-> 0, den |-> 1] ELSE rate

\* Math.round without the half: the quotient truncated
Math_floor(q) == q.num \div q.den

\* Math.round: the nearest integer, a half rounded up

Math_round(q) == (2 * q.num + q.den) \div (2 * q.den)

\* SELECT status, COUNT(*) ... GROUP BY status: one entry per status that has rows
GroupByStatus ==
    [s \in {x \in Statuses : CountStatus(x) > 0} |-> CountStatus(s)]

\* lines 138-150
Overview ==
    /\ active = 0
    /\ response' = [status |-> 200, executionId |-> 0,
                    totalWorkflows |-> Len(workflows),
                    totalExecutions |-> Len(executions),
                    successRate |-> Math_round(OrZero(RateQuery)),
                    statusBreakdown |-> GroupByStatus]
    /\ UNCHANGED <<workflows, executions, execution_steps, taskVars, responded, active,
                   events, calls, writes, faults, clients, sentTo>>

\* the store as a restarted server finds it: Execution rows of earlier runs in any
\* status, no task; the step rows, which the aggregate does not read, are left out
StoredExecutions ==
    UNION {[1..n -> {[workflow_id |-> 1, status |-> s, error_message |-> NULL] :
                        s \in Statuses}] : n \in 0..MaxAnalyticsRows}

InitAnalytics ==
    /\ workflows = <<<<>>>>
    /\ executions \in StoredExecutions
    /\ execution_steps = [e \in ExecIds |-> <<>>]
    /\ pc = [e \in ExecIds |-> "idle"]
    /\ steps = [e \in ExecIds |-> <<>>]
    /\ i = [e \in ExecIds |-> 0]
    /\ stepId = [e \in ExecIds |-> 0]
    /\ context = [e \in ExecIds |-> EmptyContext]
    /\ result = [e \in ExecIds |-> NoValue]
    /\ caught = [e \in ExecIds |-> Undefined]
    /\ responded = [e \in ExecIds |-> FALSE]
    /\ active = 0
    /\ response = [status |-> 0, executionId |-> 0]
    /\ events = [e \in ExecIds |-> <<>>]
    /\ calls = [e \in ExecIds |-> <<>>]
    /\ writes = [e \in ExecIds |-> 0]
    /\ faults = 0
    /\ clients = [c \in ClientIds |-> "absent"]
    /\ sentTo = [c \in ClientIds |-> <<>>]

\* ------------------------------------------------------------------ WebSocket connections
\* wss.on("connection"): the connection is added to the Map (lines 22-25)
Connect(c) ==
    /\ active = 0
    /\ clients[c] = "absent"
    /\ \A d \in ClientIds : d < c => clients[d] # "absent"
    /\ clients' = [clients EXCEPT ![c] = "open"]
    /\ UNCHANGED <<workflows, executions, execution_steps, taskVars, responded, active,
                   response, events, calls, writes, faults, sentTo>>

\* the socket leaves readyState OPEN; its close event has not been handled yet
SocketCloses(c) ==
    /\ active = 0
    /\ clients[c] = "open"
    /\ clients' = [clients EXCEPT ![c] = "closing"]
    /\ UNCHANGED <<workflows, executions, execution_steps, taskVars, responded, active,
                   response, events, calls, writes, faults, sentTo>>

\* ws.on("close"): clients.delete(id) (line 25)
CloseEvent(c) ==
    /\ active = 0
    /\ clients[c] = "closing"
    /\ clients' = [clients EXCEPT ![c] = "closed"]
    /\ UNCHANGED <<workflows, executions, execution_steps, taskVars, responded, active,
                   response, events, calls, writes, faults, sentTo>>

\* ------------------------------------------------------------------ specification
TaskStep(e) ==
    \/ BroadcastRunning(e) \/ BroadcastRunningFaults(e)
    \/ LoopTest(e)
    \/ InsertStep(e) \/ InsertStepFaults(e)
    \/ BroadcastStepRunning(e) \/ BroadcastStepRunningFaults(e)
    \/ CallAgent(e)
    \/ ReadSuccessThrows(e)
    \/ UpdateStep(e) \/ UpdateStepFaults(e)
    \/ BroadcastStepResult(e) \/ BroadcastStepResultFaults(e)
    \/ TestSuccess(e)
    \/ FailExecution(e) \/ FailExecutionFaults(e)
    \/ BroadcastFailed(e) \/ BroadcastFailedFaults(e)
    \/ MergeContext(e)
    \/ CatchFailStep(e) \/ CatchFailStepFaults(e)
    \/ CatchFailExecution(e) \/ CatchFailExecutionFaults(e)
    \/ CatchBroadcast(e) \/ CatchBroadcastFaults(e)
    \/ CompleteExecution(e) \/ CompleteExecutionFaults(e)
    \/ BroadcastCompleted(e) \/ BroadcastCompletedFaults(e)

\* one stored workflow, one run of it
Next ==
    \/ \E plan \in PlansUpTo(MaxSteps) : CreateOnlyWorkflow(plan)
    \/ CreateWorkflowFails
    \/ \E w \in WorkflowIds \cup {UnknownWorkflow} : ExecuteNotFound(w)
    \/ \E w \in WorkflowIds : ExecuteOnce(w)
    \/ \E w \in WorkflowIds : StartExecutionFaults(w)
    \/ \E e \in ExecIds : Respond(e)
    \/ \E e \in ExecIds, o \in SingleRunOutcomes : AgentReturns(e, o)
    \/ \E e \in ExecIds : TaskStep(e)

Spec == Init /\ [][Next]_vars

\* one run of a short plan, with every outcome the runner's call can have
NextRunner ==
    \/ \E plan \in PlansUpTo(MaxRunnerSteps) : CreateOnlyWorkflow(plan)
    \/ \E w \in WorkflowIds : ExecuteOnce(w)
    \/ \E e \in ExecIds : Respond(e)
    \/ \E e \in ExecIds, o \in AgentOutcomes : AgentReturns(e, o)
    \/ \E e \in ExecIds : TaskStep(e)

SpecRunner == Init /\ [][NextRunner]_vars

\* one run under fair scheduling: the code of a task that holds the thread runs on,
\* the handler answers, and every awaited executor call settles
NextLive ==
    \/ \E plan \in PlansUpTo(MaxLiveSteps) : CreateOnlyWorkflow(plan)
    \/ \E w \in WorkflowIds : ExecuteOnce(w)
    \/ \E e \in ExecIds : Respond(e)
    \/ \E e \in ExecIds, o \in SingleRunOutcomes : AgentReturns(e, o)
    \/ \E e \in ExecIds : TaskStep(e)

SpecLive ==
    /\ Init /\ [][NextLive]_vars
    /\ WF_vars(\E e \in ExecIds : TaskStep(e))
    /\ WF_vars(\E e \in ExecIds : Respond(e))
    /\ WF_vars(\E e \in ExecIds, o \in SingleRunOutcomes : AgentReturns(e, o))

\* one run of whatever workflow creation stored from the planner's value
NextPlanner ==
    \/ \E plan \in PlannerValues(MaxPlannerSteps) : CreateFromPlanner(plan)
    \/ CreateWorkflowFails
    \/ \E w \in WorkflowIds : ExecuteOnce(w)
    \/ \E e \in ExecIds : Respond(e)
    \/ \E e \in ExecIds, o \in SingleRunOutcomes : AgentReturns(e, o)
    \/ \E e \in ExecIds : TaskStep(e)
    \/ \E e \in ExecIds : LoopTestThrows(e)

SpecPlanner == Init /\ [][NextPlanner]_vars

\* the analytics aggregate requested over a store that holds Execution rows
NextAnalytics == Overview

SpecAnalytics == InitAnalytics /\ [][NextAnalytics]_vars

\* one run of a short plan while connections are made and closed
NextSubscribers ==
    \/ \E plan \in PlansUpTo(MaxSubscriberSteps) : CreateOnlyWorkflow(plan)
    \/ \E w \in WorkflowIds : ExecuteOnce(w)
    \/ \E e \in ExecIds : Respond(e)
    \/ \E e \in ExecIds, o \in ConcurrentOutcomes : AgentReturns(e, o)
    \/ \E e \in ExecIds : TaskStep(e)
    \/ \E c \in ClientIds : Connect(c)
    \/ \E c \in ClientIds : SocketCloses(c)
    \/ \E c \in ClientIds : CloseEvent(c)

SpecSubscribers == Init /\ [][NextSubscribers]_vars

\* up to MaxExec runs, started while earlier ones are suspended at their await
NextConcurrent ==
    \/ \E plan \in PlansUpTo(MaxConcurrentSteps) : CreateWorkflow(plan)
    \/ \E w \in WorkflowIds : Execute(w)
    \/ \E w \in WorkflowIds : StartExecutionFaults(w)
    \/ \E e \in ExecIds : Respond(e)
    \/ \E e \in ExecIds, o \in ConcurrentOutcomes : AgentReturns(e, o)
    \/ \E e \in ExecIds : TaskStep(e)

SpecConcurrent == Init /\ [][NextConcurrent]_vars

\* ------------------------------------------------------------------ properties
Rows(e) == execution_steps[e]

PlanOf(e) == workflows[executions[e].workflow_id]

TaskEnded(e) == pc[e] \in {"done", "abandoned"}

Max(S) == CHOOSE x \in S : \A y \in S : y <= x

\* C1: within one execution the step rows are created in increasing index order
\* (row k carries index k-1), every row but the last is in a terminal status, and
\* the executor call for a step is made only when every earlier row is terminal.
C1_SequentialOrder ==
    \A e \in DOMAIN executions :
        /\ \A k \in 1..Len(Rows(e)) : Rows(e)[k].step_index = k - 1
        /\ \A k \in 1..(Len(Rows(e)) - 1) : Terminal(Rows(e)[k].status)
        /\ \A c \in 1..Len(calls[e]) :
              /\ calls[e][c].stepIndex = c - 1
              /\ c <= Len(Rows(e))
              /\ \A k \in 1..(c - 1) : Terminal(Rows(e)[k].status)

C1_Witness ==
    \E e \in DOMAIN executions :
        /\ Len(Rows(e)) = 3
        /\ Len(calls[e]) = 3
        /\ Rows(e)[1].status = "completed" /\ Rows(e)[2].status = "completed"

\* The halting part of C2: a failed step row is the last row of its execution and
\* no executor call follows it.
HaltsAtFailure(e) ==
    \A k \in 1..Len(Rows(e)) :
        Rows(e)[k].status = "failed" => Len(Rows(e)) = k /\ Len(calls[e]) <= k

SomeStepFailed(e) == \E k \in 1..Len(Rows(e)) : Rows(e)[k].status = "failed"

\* C2 as stated: after a step failure no later row is created and no later executor
\* call made, and once the task has ended the Execution is persisted as Failed.
C2_FailFastAlwaysFailed ==
    \A e \in DOMAIN executions :
        /\ HaltsAtFailure(e)
        /\ SomeStepFailed(e) /\ TaskEnded(e) => executions[e].status = "failed"

\* C2 amended: after a step failure no later row is created and no later executor
\* call made; a task that returns after a step failure has persisted the Execution
\* as Failed; a task left with a failed step and an Execution that is not Failed is
\* one that was abandoned by a fault thrown in its catch block, Execution Running.
C2_FailFast ==
    \A e \in DOMAIN executions :
        /\ HaltsAtFailure(e)
        /\ SomeStepFailed(e) /\ pc[e] = "done" => executions[e].status = "failed"
        /\ SomeStepFailed(e) /\ pc[e] = "abandoned" /\ executions[e].status # "failed"
              => executions[e].status = "running" /\ faults > 0

C2_Witness ==
    \E e \in DOMAIN executions :
        /\ Len(PlanOf(e)) = 3
        /\ Len(Rows(e)) = 2
        /\ Rows(e)[2].status = "failed"
        /\ pc[e] = "done"
        /\ executions[e].status = "failed"

\* C3: an Execution that is persisted as Failed, once its task has ended, carries the
\* error message persisted on its failed step row.
C3_SameMessage ==
    \A e \in DOMAIN executions :
        executions[e].status = "failed" /\ TaskEnded(e) =>
            /\ Len(Rows(e)) > 0
            /\ Rows(e)[Len(Rows(e))].status = "failed"
            /\ Rows(e)[Len(Rows(e))].error_message = executions[e].error_message

\* C4: an Execution is Completed only when every step of its plan has a row, every
\* row is Completed and the executor was called once per step.
C4_AllSuccess ==
    \A e \in DOMAIN executions :
        executions[e].status = "completed" =>
            /\ Len(Rows(e)) = Len(PlanOf(e))
            /\ Len(calls[e]) = Len(PlanOf(e))
            /\ \A k \in 1..Len(Rows(e)) : Rows(e)[k].status = "completed"

C4_Witness ==
    \E e \in DOMAIN executions :
        /\ executions[e].status = "completed"
        /\ Len(PlanOf(e)) = 3
        /\ Len(Rows(e)) = 3

\* C5: once an Execution is persisted as Completed or Failed, no step writes its
\* row or any of its step rows, creates a step row for it or calls the executor for it.
C5_TerminalExecutionFrozen ==
    [][\A e \in DOMAIN executions :
          Terminal(executions[e].status) =>
              /\ executions'[e] = executions[e]
              /\ execution_steps'[e] = execution_steps[e]
              /\ calls'[e] = calls[e]
              /\ writes'[e] = writes[e]]_vars

\* C6: once a step row is persisted as Completed or Failed, its status is never
\* written to a different value.
C6_TerminalStepFrozen ==
    [][\A e \in DOMAIN executions : \A k \in 1..Len(Rows(e)) :
          Terminal(Rows(e)[k].status) =>
              execution_steps'[e][k].status = Rows(e)[k].status]_vars

\* the earlier steps of execution e, before its c-th executor call, named n
EarlierNamed(e, c, n) == {k \in 1..(c - 1) : Rows(e)[k].name = n}

\* C7: the context passed to the executor for a step maps every name to the result
\* persisted for the latest earlier step of that name, and has no entry for a name
\* no earlier step carries; so the context of step 0 is empty.
C7_ContextPropagation ==
    \A e \in DOMAIN executions : \A c \in 1..Len(calls[e]) : \A n \in Names :
        IF EarlierNamed(e, c, n) = {}
        THEN calls[e][c].context[n] = Undefined
        ELSE /\ Rows(e)[Max(EarlierNamed(e, c, n))].status = "completed"
             /\ Bind(JSON_stringify(calls[e][c].context[n]))
                    = Rows(e)[Max(EarlierNamed(e, c, n))].result_json

C7_Witness ==
    \E e \in DOMAIN executions :
        /\ Len(calls[e]) = 3
        /\ Rows(e)[1].name = Rows(e)[2].name
        /\ Rows(e)[1].result_json = Bind(JSON_stringify("R1"))
        /\ Rows(e)[2].result_json = Bind(JSON_stringify("R2"))
        /\ calls[e][3].context[Rows(e)[1].name] = "R2"
        /\ calls[e][2].context[Rows(e)[1].name] = "R1"

\* C8: a step that answers 404 creates or changes no Execution row and no step row,
\* broadcasts nothing and calls no executor; and every Execution row there is
\* belongs to a stored workflow.
C8_NotFoundChangesNothing ==
    [][/\ response'.status = 404 /\ response' # response =>
             UNCHANGED <<workflows, executions, execution_steps, events, calls, writes>>
       /\ \A e \in DOMAIN executions' :
             executions'[e].workflow_id \in DOMAIN workflows']_vars

C8_Witness ==
    /\ response.status = 404
    /\ workflows # <<>>
    /\ executions # <<>>

\* C9: the execution id has been returned to the caller in every state in which the
\* Execution is persisted in a terminal status.
C9_RespondedBeforeTerminal ==
    \A e \in DOMAIN executions : Terminal(executions[e].status) => responded[e]

\* C10: every execution has at most one step row with status Running.
C10_OneRunningStep ==
    \A e \in DOMAIN executions :
        Cardinality({k \in 1..Len(Rows(e)) : Rows(e)[k].status = "running"}) <= 1

C10_Witness ==
    /\ Len(executions) = 2
    /\ faults > 0
    /\ Len(Rows(1)) = 2 /\ Rows(1)[2].status = "running" /\ pc[1] = "await"
    /\ Len(Rows(2)) = 1 /\ Rows(2)[1].status = "running" /\ pc[2] = "abandoned"

\* C11: the step rows of an execution carry exactly the indices 0..k-1 for some k up
\* to the plan's length, one row per index and each with the name the plan has at
\* that index; rows are created lazily: the row of index i exists only once the loop
\* has reached step i, and an execution that was never started has no row.
C11_ContiguousLazyRows ==
    /\ \A e \in DOMAIN executions :
          /\ Len(Rows(e)) <= Len(PlanOf(e))
          /\ \A k \in 1..Len(Rows(e)) :
                /\ Rows(e)[k].step_index = k - 1
                /\ Rows(e)[k].name = PlanOf(e)[k]
          /\ Len(Rows(e)) \in {i[e], i[e] + 1}
          /\ pc[e] \in {"L88", "L90", "L94"} => Len(Rows(e)) = i[e]
    /\ \A e \in ExecIds \ DOMAIN executions : Rows(e) = <<>>

\* the loop is in its second iteration of a longer plan: two rows, none for the rest
C11_Witness ==
    \E e \in DOMAIN executions :
        /\ pc[e] = "await"
        /\ Len(Rows(e)) = 2
        /\ Len(PlanOf(e)) > 2

IsStepUpdate(m) == m.type = "step_update"

IsExecutionUpdate(m) == m.type = "execution_update"

\* the step_update events of an execution, in emission order
StepEvents(e) == SelectSeq(events[e], IsStepUpdate)

\* the task is not in the middle of a run of statements: it waits for the executor
\* or it has ended
Quiescent(e) == pc[e] \in {"await", "done", "abandoned"}

\* C12: notification parity.  Whenever the task of an execution is suspended or has
\* ended, its step_update events in emission order have non-decreasing stepIndex,
\* the indices they carry are exactly the indices of the persisted step rows, and
\* every terminal event of an index comes after a Running event of that index.
C12_NotificationParity ==
    \A e \in DOMAIN executions :
        Quiescent(e) =>
            /\ \A a, b \in 1..Len(StepEvents(e)) :
                  a < b => StepEvents(e)[a].stepIndex <= StepEvents(e)[b].stepIndex
            /\ {StepEvents(e)[a].stepIndex : a \in 1..Len(StepEvents(e))}
                  = {Rows(e)[k].step_index : k \in 1..Len(Rows(e))}
            /\ \A b \in 1..Len(StepEvents(e)) :
                  Terminal(StepEvents(e)[b].status) =>
                      \E a \in 1..(b - 1) :
                          /\ StepEvents(e)[a].stepIndex = StepEvents(e)[b].stepIndex
                          /\ StepEvents(e)[a].status = "running"

\* C13: every step failure is announced.  An execution_update Failed event is
\* preceded by a step_update Failed event of the same execution, and a task that
\* has returned with a failed step row has broadcast a step_update Failed event
\* carrying that row's index and error.
C13_StepFailureAnnounced ==
    \A e \in DOMAIN executions :
        /\ \A p \in 1..Len(events[e]) :
              IsExecutionUpdate(events[e][p]) /\ events[e][p].status = "failed" =>
                  \E q \in 1..(p - 1) :
                      IsStepUpdate(events[e][q]) /\ events[e][q].status = "failed"
        /\ pc[e] = "done" =>
              \A k \in 1..Len(Rows(e)) :
                  Rows(e)[k].status = "failed" =>
                      \E q \in 1..Len(events[e]) :
                          /\ IsStepUpdate(events[e][q])
                          /\ events[e][q].status = "failed"
                          /\ events[e][q].stepIndex = Rows(e)[k].step_index
                          /\ Bind(events[e][q].error) = Rows(e)[k].error_message

\* the positions of the terminal execution_update events of an execution
TerminalUpdates(e) ==
    {p \in 1..Len(events[e]) :
        IsExecutionUpdate(events[e][p]) /\ Terminal(events[e][p].status)}

\* C14: the events of an execution are bracketed.  The first event is
\* execution_update Running, emitted once the Execution row exists and before any
\* step row is created; a terminal execution_update is the last event and there is
\* at most one; a task that has ended with the Execution in a terminal status has
\* emitted exactly one, carrying the persisted status.
C14_Bracketed ==
    /\ \A e \in ExecIds \ DOMAIN executions : events[e] = <<>>
    /\ \A e \in DOMAIN executions :
          /\ events[e] # <<>> => events[e][1] = ExecutionUpdate("running", Undefined)
          /\ Rows(e) # <<>> => events[e] # <<>>
          /\ \A p \in TerminalUpdates(e) : p = Len(events[e])
          /\ TaskEnded(e) /\ Terminal(executions[e].status) =>
                /\ Cardinality(TerminalUpdates(e)) = 1
                /\ \A p \in TerminalUpdates(e) :
                      events[e][p].status = executions[e].status

\* the event a step has just emitted for execution e
Emitted(e) == events'[e][Len(events'[e])]

\* C15: persist before broadcast.  Whenever an event is emitted the store already
\* holds the status it carries (for a step_update the step row it names, for an
\* execution_update the Execution row); the executor is invoked for a step only
\* after the step's row is persisted Running and its step_update Running has been
\* broadcast; a step row is given its terminal status only after the executor was
\* invoked for it.
C15_PersistBeforeBroadcast ==
    [][\A e \in ExecIds :
          /\ events'[e] # events[e] =>
                /\ events'[e] = Append(events[e], Emitted(e))
                /\ e \in DOMAIN executions
                /\ IF IsStepUpdate(Emitted(e))
                   THEN /\ Emitted(e).stepId \in 1..Len(Rows(e))
                        /\ Rows(e)[Emitted(e).stepId].status = Emitted(e).status
                        /\ Rows(e)[Emitted(e).stepId].step_index = Emitted(e).stepIndex
                   ELSE executions[e].status = Emitted(e).status
          /\ calls'[e] # calls[e] =>
                /\ Len(Rows(e)) = Len(calls'[e])
                /\ Rows(e)[Len(Rows(e))].status = "running"
                /\ \E q \in 1..Len(events[e]) :
                      /\ IsStepUpdate(events[e][q])
                      /\ events[e][q].status = "running"
                      /\ events[e][q].stepIndex = calls'[e][Len(calls'[e])].stepIndex
          /\ \A k \in 1..Len(Rows(e)) :
                Rows(e)[k].status = "running" /\ Terminal(execution_steps'[e][k].status)
                    => Len(calls[e]) = k
      ]_vars

\* a run whose two steps completed: every kind of event has been emitted
C15_Witness ==
    \E e \in DOMAIN executions :
        /\ pc[e] = "done"
        /\ executions[e].status = "completed"
        /\ Len(StepEvents(e)) = 4
        /\ Len(events[e]) = 6

\* C16: fault containment of the step runner.  Whenever the external call ends in
\* a fault (it rejects, the response has no text, the text is not JSON) the awaited
\* call resumes the loop normally, at line 104, with a value whose success is false
\* and whose error is a non-empty message.
C16_FaultContained ==
    [][\A e \in ExecIds, o \in FaultOutcomes :
          AgentReturns(e, o) =>
              /\ pc'[e] = "L104"
              /\ ~result'[e].isNull
              /\ result'[e].success = "false"
              /\ ~Falsy(result'[e].error)
      ]_vars

\* the call rejected with an error that has no message: the runner returned its
\* fallback message
C16_Witness ==
    \E e \in DOMAIN executions :
        /\ pc[e] = "L104"
        /\ result[e] = Failure(UnknownErrorMsg)

\* C17: a failure carries a message.  Every value the runner has returned with
\* success false has a non-empty error, and every step row persisted as failed has
\* a non-empty error_message.
C17_FailureHasMessage ==
    \A e \in DOMAIN executions :
        /\ result[e].success = "false" => ~Falsy(result[e].error)
        /\ \A k \in 1..Len(Rows(e)) :
              Rows(e)[k].status = "failed" => Rows(e)[k].error_message \notin {NULL, ""}

\* C18: the loop survives a step's outcome.  Whatever the runner returned (success,
\* failure, a value without the success flag, null), a task that has returned left
\* every step row and the Execution in a terminal status, and a task is abandoned
\* only by a throwing repository write or broadcast, never by the step's outcome.
C18_LoopSurvives ==
    \A e \in DOMAIN executions :
        /\ pc[e] = "abandoned" => faults > 0
        /\ pc[e] = "done" =>
              /\ Terminal(executions[e].status)
              /\ \A k \in 1..Len(Rows(e)) : Terminal(Rows(e)[k].status)
        /\ faults = 0 /\ pc[e] \in {"L113", "L126"} => Terminal(Rows(e)[stepId[e]].status)

\* the runner returned null, no collaborator call threw: the task has returned with
\* the step and the Execution persisted as failed
C18_Witness ==
    \E e \in DOMAIN executions :
        /\ pc[e] = "done"
        /\ faults = 0
        /\ result[e].isNull
        /\ executions[e].status = "failed"
        /\ Rows(e)[1].status = "failed"

\* C19: no automatic retry.  Within one execution the executor calls carry pairwise
\* different step indices and number at most the plan's length, and no call is made
\* for a step whose row is failed or for any step after it; the rows and calls of a
\* second run of the same workflow belong to a second Execution row.
C19_NoRetry ==
    \A e \in DOMAIN executions :
        /\ \A a, b \in 1..Len(calls[e]) :
              a # b => calls[e][a].stepIndex # calls[e][b].stepIndex
        /\ Len(calls[e]) <= Len(PlanOf(e))
        /\ \A k \in 1..Len(Rows(e)) :
              Rows(e)[k].status = "failed" =>
                  \A c \in 1..Len(calls[e]) : calls[e][c].stepIndex <= Rows(e)[k].step_index
        /\ TaskEnded(e) => Len(calls[e]) <= Len(Rows(e))

\* a workflow run twice: the first run ended at a failed first step of a longer
\* plan, the second run is a second Execution with its own call
C19_Witness ==
    \E e1, e2 \in DOMAIN executions :
        /\ e1 # e2
        /\ executions[e1].workflow_id = executions[e2].workflow_id
        /\ pc[e1] = "done"
        /\ Len(Rows(e1)) = 1
        /\ Rows(e1)[1].status = "failed"
        /\ Len(calls[e1]) = 1
        /\ Len(PlanOf(e1)) > 1
        /\ Len(calls[e2]) >= 1

\* the rows of execution e: its Execution row, if it exists, and its step rows
OwnRows(ex, st, e) == <<IF e \in DOMAIN ex THEN ex[e] ELSE NULL, st[e]>>

\* C20: isolation of executions.  A start of an execution adds exactly one Execution
\* row, under an id no row had, and changes no other row; every other write changes
\* only rows of the execution whose task is running, so the rows of every other
\* execution, in particular when a step fails, stay as they are.
C20_Isolation ==
    [][/\ \A e \in DOMAIN executions : e \in DOMAIN executions'
       /\ \A w \in DOMAIN workflows :
             StartExecution(w) =>
                 /\ Len(executions') = Len(executions) + 1
                 /\ Len(executions') \notin DOMAIN executions
                 /\ executions'[Len(executions')] = ExecutionRow(w)
                 /\ \A e \in DOMAIN executions : executions'[e] = executions[e]
                 /\ execution_steps' = execution_steps
       /\ active # 0 =>
             /\ Len(executions') = Len(executions)
             /\ \A f \in ExecIds \ {active} :
                   OwnRows(executions', execution_steps', f)
                       = OwnRows(executions, execution_steps, f)
       /\ \A e \in DOMAIN executions :
             OwnRows(executions', execution_steps', e)
                 # OwnRows(executions, execution_steps, e) => active = e
      ]_vars

\* the second execution has failed at a step and returned while the first one,
\* started before it, still waits for its executor with its rows running
C20_Witness ==
    /\ Len(executions) = 2
    /\ pc[2] = "done"
    /\ executions[2].status = "failed"
    /\ SomeStepFailed(2)
    /\ pc[1] = "await"
    /\ executions[1].status = "running"
    /\ Rows(1)[Len(Rows(1))].status = "running"

\* C21: executions do not share context.  Under every interleaving of the
\* executions at their awaits, each entry of the context passed to a step of an
\* execution is the result persisted on an earlier, completed step row of that same
\* execution carrying the entry's name.
C21_ContextIsolation ==
    \A e \in DOMAIN executions : \A c \in 1..Len(calls[e]) : \A n \in Names :
        calls[e][c].context[n] # Undefined =>
            \E k \in 1..(c - 1) :
                /\ Rows(e)[k].name = n
                /\ Rows(e)[k].status = "completed"
                /\ Rows(e)[k].result_json = Bind(JSON_stringify(calls[e][c].context[n]))

\* two executions of the same workflow were both past their first step, whose
\* results differed, before either made its second call: each second call has
\* its own execution's result in its context
C21_Witness ==
    \E e1, e2 \in DOMAIN executions : \E n \in Names :
        /\ e1 # e2
        /\ executions[e1].workflow_id = executions[e2].workflow_id
        /\ Len(calls[e1]) = 2 /\ Len(calls[e2]) = 2
        /\ pc[e1] = "await" /\ pc[e2] = "await"
        /\ calls[e1][2].context[n] = "R1"
        /\ calls[e2][2].context[n] = "R2"

C23_PlanningFailureChangesNothing ==
    [][/\ CreateWorkflowFails => response'.status = 500
       /\ response'.status = 500 /\ response' # response =>
             UNCHANGED <<workflows, executions, execution_steps, events, sentTo, calls,
                         writes, pc>>
      ]_vars

\* a workflow creation has failed while an execution waits for its executor
C23_Witness ==
    /\ response.status = 500
    /\ \E e \in DOMAIN executions : pc[e] = "await" /\ executions[e].status = "running"

RECURSIVE SumOf(_)
\* the sum of the values of a function with a finite domain
SumOf(f) ==
    IF DOMAIN f = {} THEN 0
    ELSE LET s == CHOOSE x \in DOMAIN f : TRUE
         IN f[s] + SumOf([x \in DOMAIN f \ {s} |-> f[x]])

\* C24: the analytics aggregate.  The answer reports totalExecutions as the number
\* of Execution rows; successRate is an integer nearest to 100 * completed / total
\* (within one half of it), and 0 when there is no execution; the counts of the
\* status histogram are the numbers of rows per status and sum to totalExecutions.
C24_Analytics ==
    [][("successRate" \in DOMAIN response' /\ response' # response) =>
          /\ response'.totalExecutions = Len(executions)
          /\ Len(executions) = 0 => response'.successRate = 0
          /\ Len(executions) > 0 =>
                /\ 2 * (response'.successRate * Len(executions)
                            - 100 * CountStatus("completed")) <= Len(executions)
                /\ 2 * (100 * CountStatus("completed")
                            - response'.successRate * Len(executions)) <= Len(executions)
          /\ \A s \in DOMAIN response'.statusBreakdown :
                response'.statusBreakdown[s] = CountStatus(s)
          /\ SumOf(response'.statusBreakdown) = response'.totalExecutions
      ]_vars

\* two of three executions completed: the rate 66.67 is reported as 67
C24_Witness ==
    /\ "successRate" \in DOMAIN response
    /\ Len(executions) = 3
    /\ CountStatus("completed") = 2
    /\ response.successRate = 67

\* a repository write of the task of e throws
WriteFaults(e) ==
    \/ InsertStepFaults(e) \/ UpdateStepFaults(e) \/ FailExecutionFaults(e)
    \/ CatchFailStepFaults(e) \/ CatchFailExecutionFaults(e) \/ CompleteExecutionFaults(e)

\* the task of e is in its catch block with a repository error, or past it, or it
\* has been abandoned before its Execution was completed
Stopped(e) ==
    \/ caught[e] = DbErrorMsg
    \/ pc[e] = "abandoned" /\ e \in DOMAIN executions /\ executions[e].status # "completed"

\* C25: a persistence failure is fatal to the owning task only.  A repository write
\* of an execution that throws stops its task; from then on the executor is not
\* called for that execution, no step row is added, and its Execution is never
\* persisted as completed.  The throw changes no row and no task of another
\* execution.
C25_PersistenceFailureFatal ==
    [][\A e \in ExecIds :
          /\ WriteFaults(e) =>
                /\ Stopped(e)'
                /\ \A f \in ExecIds \ {e} :
                      /\ pc'[f] = pc[f]
                      /\ execution_steps'[f] = execution_steps[f]
                      /\ f \in DOMAIN executions => executions'[f] = executions[f]
          /\ Stopped(e) =>
                /\ Stopped(e)'
                /\ calls'[e] = calls[e]
                /\ Len(execution_steps'[e]) = Len(execution_steps[e])
                /\ e \in DOMAIN executions' => executions'[e].status # "completed"
      ]_vars

\* the UPDATE of a step row threw in the first step of a longer plan: the task has
\* returned through its catch block, while another execution has completed
C25_Witness ==
    \E e, f \in DOMAIN executions :
        /\ caught[e] = DbErrorMsg
        /\ pc[e] = "done"
        /\ executions[e].status = "failed"
        /\ Len(calls[e]) = 1
        /\ Len(PlanOf(e)) > 1
        /\ executions[f].status = "completed"

RECURSIVE IsSubsequence(_, _)
\* a is obtained from b by leaving elements out
IsSubsequence(a, b) ==
    IF a = <<>> THEN TRUE
    ELSE IF b = <<>> THEN FALSE
    ELSE IF Head(a) = Head(b) THEN IsSubsequence(Tail(a), Tail(b))
    ELSE IsSubsequence(a, Tail(b))

\* the events of execution e among the payloads sent to connection c, in order
SentEvents(sent, c, e) ==
    LET own == SelectSeq(sent[c], LAMBDA p : p.executionId = e)
    IN [k \in 1..Len(own) |-> own[k].message]

\* C26: what a subscriber is sent.  A payload is sent to a connection only in a
\* step that emits that event and only while the connection is in the Map with
\* readyState OPEN, so never after it has closed; a step that emits or sends
\* leaves the set of connections as it is; and for every connection the events
\* it has been sent are, per execution, a subsequence of the emitted events.
C26_SubscriberSubsequence ==
    [][/\ \A c \in ClientIds :
             sentTo'[c] # sentTo[c] =>
                 /\ clients[c] = "open"
                 /\ \E e \in ExecIds :
                       /\ events'[e] # events[e]
                       /\ events'[e] = Append(events[e], events'[e][Len(events'[e])])
                       /\ sentTo'[c] = Append(sentTo[c],
                                              Payload(e, events'[e][Len(events'[e])]))
       /\ events' # events \/ sentTo' # sentTo => clients' = clients
       /\ \A c \in ClientIds, e \in ExecIds :
             IsSubsequence(SentEvents(sentTo', c, e), events'[e])
      ]_vars

\* one connection was made while the task waited for its executor and has been
\* sent only the later events; another closed then and has only the earlier ones
C26_Witness ==
    \E c, d \in ClientIds, e \in DOMAIN executions :
        /\ pc[e] = "done"
        /\ Len(events[e]) = 4
        /\ sentTo[c] = <<Payload(e, events[e][3]), Payload(e, events[e][4])>>
        /\ clients[d] = "closed"
        /\ sentTo[d] = <<Payload(e, events[e][1]), Payload(e, events[e][2])>>

\* the last event execution e has emitted
LastEvent(e) == events[e][Len(events[e])]

\* C27: one result value per completed step.  The context of an execution changes
\* only in the merge of line 120; the merge is made only for a step whose result
\* has success set and whose row is persisted completed, and the value merged under
\* the step's name is the one whose serialisation is stored on the row and the one
\* the step_update completed event, the last event emitted, carries.
C27_ResultConsistency ==
    [][\A e \in ExecIds :
          /\ context'[e] # context[e] => At(e, "L120") /\ pc'[e] = "L90"
          /\ At(e, "L120") /\ pc'[e] = "L90" =>
                /\ Truthy(result[e].success)
                /\ Rows(e)[stepId[e]].status = "completed"
                /\ Rows(e)[stepId[e]].step_index = i[e]
                /\ Rows(e)[stepId[e]].result_json = Bind(JSON_stringify(result[e].result))
                /\ LastEvent(e) = StepUpdate(stepId[e], i[e], "completed",
                                             result[e].result, result[e].error)
                /\ context'[e][CurrentStep(e)] = LastEvent(e).result
                /\ \A n \in Names \ {CurrentStep(e)} : context'[e][n] = context[e][n]
      ]_vars

\* the first step has completed with a result and the loop is back at its test:
\* row, event and context hold it
C27_Witness ==
    \E e \in DOMAIN executions :
        /\ pc[e] = "L90"
        /\ i[e] = 1
        /\ Rows(e)[1].result_json = Bind(JSON_stringify("R1"))
        /\ LastEvent(e).result = "R1"
        /\ context[e][Rows(e)[1].name] = "R1"

\* C28: terminal shape.  A completed Execution has one step row per step of its
\* plan, all completed; a failed Execution has at least one step row, its last row
\* failed and every earlier row completed; an Execution with a running step row,
\* or a failed one not yet escalated, is itself running.
C28_TerminalShape ==
    \A e \in DOMAIN executions :
        /\ executions[e].status = "completed" =>
              /\ Len(Rows(e)) = Len(PlanOf(e))
              /\ \A k \in 1..Len(Rows(e)) :
                    Rows(e)[k].status = "completed" /\ Rows(e)[k].step_index = k - 1
        /\ executions[e].status = "failed" =>
              /\ Len(Rows(e)) >= 1
              /\ Rows(e)[Len(Rows(e))].status = "failed"
              /\ \A k \in 1..(Len(Rows(e)) - 1) : Rows(e)[k].status = "completed"
        /\ (\E k \in 1..Len(Rows(e)) : Rows(e)[k].status = "running") =>
              executions[e].status = "running"
        /\ executions[e].status \in Statuses

\* a run has failed in its second step through the catch block: the first row is
\* completed, the second failed, the Execution failed
C28_Witness ==
    \E e \in DOMAIN executions :
        /\ executions[e].status = "failed"
        /\ caught[e] # Undefined
        /\ Len(Rows(e)) = 2
        /\ Rows(e)[1].status = "completed"
        /\ Rows(e)[2].status = "failed"

\* the Execution row and the last step row that the value of the last executor
\* call dictates when no collaborator call throws
ExpectedExecution(e) ==
    IF Rows(e) = <<>> \/ (~result[e].isNull /\ Truthy(result[e].success))
    THEN [status |-> "completed", error_message |-> NULL]
    ELSE [status |-> "failed",
          error_message |-> IF result[e].isNull THEN TypeErrorMsg
                            ELSE Bind(result[e].error)]

ExpectedLastRow(e) ==
    IF result[e].isNull
    THEN [status |-> "failed", result_json |-> NULL, error_message |-> TypeErrorMsg]
    ELSE [status |-> StatusOf(result[e]),
          result_json |-> Bind(JSON_stringify(result[e].result)),
          error_message |-> Bind(result[e].error)]

\* C29: notifier non-interference.  With any connections made and closed during
\* the run, and whether or not a broadcast throws, a task that has returned with no
\* repository write having thrown leaves the persisted outcome that the executor's
\* values dictate: the Execution's status and error, and every step row's status,
\* result and error.
C29_NotifierNonInterference ==
    \A e \in DOMAIN executions :
        pc[e] = "done" /\ caught[e] # DbErrorMsg =>
            /\ executions[e].status = ExpectedExecution(e).status
            /\ executions[e].error_message = ExpectedExecution(e).error_message
            /\ \A k \in 1..(Len(Rows(e)) - 1) : Rows(e)[k].status = "completed"
            /\ Rows(e) # <<>> =>
                  LET last == Rows(e)[Len(Rows(e))] IN
                  /\ last.status = ExpectedLastRow(e).status
                  /\ last.result_json = ExpectedLastRow(e).result_json
                  /\ last.error_message = ExpectedLastRow(e).error_message

\* the two events of a run of a plan without steps
EmptyPlanEvents ==
    <<ExecutionUpdate("running", Undefined), ExecutionUpdate("completed", Undefined)>>

\* C30: the plan without steps.  An execution of it has one Execution row, which is
\* running or completed and never failed, no step row and no executor call; its
\* events are execution_update running and then execution_update completed, the
\* second only once the row is completed; a task that has returned left the
\* Execution completed with exactly these two events, and a task is kept from
\* returning only by a throwing repository write or broadcast.
C30_EmptyPlan ==
    \A e \in DOMAIN executions :
        PlanOf(e) = <<>> =>
            /\ executions[e].status \in {"running", "completed"}
            /\ executions[e].error_message = NULL
            /\ Rows(e) = <<>>
            /\ calls[e] = <<>>
            /\ Len(events[e]) <= 2
            /\ \A p \in 1..Len(events[e]) : events[e][p] = EmptyPlanEvents[p]
            /\ Len(events[e]) = 2 => executions[e].status = "completed"
            /\ pc[e] = "done" =>
                  executions[e].status = "completed" /\ events[e] = EmptyPlanEvents
            /\ pc[e] \in {"done", "abandoned", "L88", "L90", "L131", "L132"}
            /\ pc[e] = "abandoned" => faults > 0

\* the run of a plan without steps has returned
C30_Witness ==
    \E e \in DOMAIN executions :
        /\ PlanOf(e) = <<>>
        /\ pc[e] = "done"
        /\ faults = 0
        /\ events[e] = EmptyPlanEvents

\* a stored steps_json that startExecution can load and iterate: the text of a list
\* of steps, the empty one included
Loadable(steps_json) == steps_json \in PlansUpTo(MaxSteps)

\* C31: no orphaned Running execution from a bad plan.  Every stored workflow row
\* carries a list of steps (possibly empty), and while no repository write and no
\* broadcast has thrown, no Execution row is Running with its task gone.
C31_NoOrphanedRunning ==
    /\ \A w \in DOMAIN workflows : Loadable(workflows[w])
    /\ \A e \in DOMAIN executions :
          executions[e].status = "running" /\ faults = 0 => pc[e] # "abandoned"

====
